---- MODULE Spec2Model ----
(***************************************************************************)
(* CatRAR 1.0 (src/catrarv0.py): the archive session of the class CatRAR.  *)
(* The state is the session (current_archive, archive_entries and the tree *)
(* view that mirrors it), the file system holding the containers, and a    *)
(* record of what the last handler did.  One action per handler.           *)
(*                                                                         *)
(* Paths and entry names are sequences of components: the file name        *)
(* "a.tar.gz" is <<"a", ".tar", ".gz">> and the entry name "docs/readme"   *)
(* is <<"docs", "readme">>.  File contents are sequences of bytes.         *)
(***************************************************************************)
EXTENDS Integers, Sequences, FiniteSets, TLC

VARIABLES current_archive, archive_entries, disk, last

vars == <<current_archive, archive_entries, disk, last>>

(* ------------------------------ bounds -------------------------------- *)

\* The file system holds at most this many archive members in total.
MaxEntries == 3

(* --------------------------- Python values ---------------------------- *)

\* self.current_archive = None (line 40); "not self.current_archive" is also
\* true of the empty string, and both are the empty path here.
None == <<>>

Last(s) == s[Len(s)]

\* str.endswith(suffix), on component sequences.
EndsWith(path, suffix) ==
    /\ Len(suffix) <= Len(path)
    /\ SubSeq(path, Len(path) - Len(suffix) + 1, Len(path)) = suffix

EndsWithAny(path, suffixes) == \E s \in suffixes : EndsWith(path, s)

DotZip == <<".zip">>
DotTar == <<".tar">>
DotTarGz == <<".tar", ".gz">>
DotGz == <<".gz">>
DotTgz == <<".tgz">>
DotTmp == <<".tmp">>

\* The archive paths the dialogs can return.
ZipPath == <<"a", ".zip">>
TarPath == <<"a", ".tar">>
TarGzPath == <<"a", ".tar", ".gz">>
TgzPath == <<"a", ".tgz">>
RarPath == <<"a", ".rar">>

ArchivePaths == {ZipPath, TarPath, TarGzPath, TgzPath, RarPath}

\* temp_path = self.current_archive + '.tmp'
TempPath(path) == path \o DotTmp

DiskPaths == ArchivePaths \cup {TempPath(p) : p \in ArchivePaths}

(* ------------------------- the source files --------------------------- *)

\* What the paths handed to _add_to_archive name: regular files (one of them
\* unreadable), a directory holding one file, and a path naming nothing.
FileX == <<"in", "x">>
FileLocked == <<"in", "locked">>
FileGone == <<"in", "gone">>
DirDocs == <<"in", "docs">>

SourceFiles == {FileX, FileLocked, FileGone}
SourceDirs == {DirDocs}

\* os.path.isfile / os.path.isdir
IsFile(path) == path \in {FileX, FileLocked}
IsDir(path) == path = DirDocs
\* open(path, 'rb') succeeds
Readable(path) == path = FileX

FileData(path) == IF path = FileX THEN <<2, 2>> ELSE <<9>>

\* os.walk(path) / os.listdir(path): the regular files below a directory, each
\* with its path relative to the directory and its bytes.
DirFiles(path) == IF path = DirDocs THEN << [rel |-> <<"readme">>, data |-> <<3>>] >>
                  ELSE << >>

\* os.path.basename(path)
Basename(path) == <<Last(path)>>

\* os.path.relpath(file_path, os.path.dirname(path)) for a file below path.
RelToParent(path, rel) == Basename(path) \o rel

(* --------------------------- the containers --------------------------- *)

\* A member of a container.  meta is "ok", or "badtime" when its stored time
\* is one datetime(...) rejects (a zeroed DOS date, an out-of-range mtime),
\* or "badcrc" when its stored checksum does not match its bytes.
Member(name, data, is_dir, meta) ==
    [name |-> name, data |-> data, is_dir |-> is_dir, meta |-> meta]

NoFile == [kind |-> "none", members |-> << >>]
Junk == [kind |-> "junk", members |-> << >>]
Container(kind, members) == [kind |-> kind, members |-> members]

\* class ArchiveEntry
ArchiveEntry(name, size, is_dir) == [name |-> name, size |-> size, is_dir |-> is_dir]

EntryOf(m) == ArchiveEntry(m.name, Len(m.data), m.is_dir)

SeqMap(Op(_), s) == [i \in 1..Len(s) |-> Op(s[i])]

\* The members before the first one whose time datetime(...) rejects.
RECURSIVE GoodPrefix(_)
GoodPrefix(members) ==
    IF members = << >> \/ members[1].meta = "badtime" THEN << >>
    ELSE <<members[1]>> \o GoodPrefix(Tail(members))

\* zipfile.ZipFile(filepath, 'r') succeeds.
ZipReadable(file) == file.kind = "zip"

\* tarfile.open(filepath, mode) succeeds: 'r' reads through any compression,
\* 'r:gz' only a gzip stream.
TarReadMode(filepath) == IF EndsWith(filepath, DotGz) THEN "r:gz" ELSE "r"
TarReadable(file, mode) ==
    IF mode = "r:gz" THEN file.kind = "targz" ELSE file.kind \in {"tar", "targz"}

\* _load_zip / _load_tar: the entries appended to archive_entries, and whether
\* the loop ran to its end.
LoadMembers(file) ==
    [ok |-> GoodPrefix(file.members) = file.members,
     entries |-> SeqMap(EntryOf, GoodPrefix(file.members))]

LoadFailed == [ok |-> FALSE, entries |-> << >>]

LoadZip(file) == IF ZipReadable(file) THEN LoadMembers(file) ELSE LoadFailed

LoadTar(file, filepath) ==
    IF TarReadable(file, TarReadMode(filepath)) THEN LoadMembers(file) ELSE LoadFailed

\* load_archive(filepath) on the file system d: the session it leaves.
LoadDispatch(d, filepath) ==
    IF EndsWith(filepath, DotZip) THEN LoadZip(d[filepath])
    ELSE IF EndsWithAny(filepath, {DotTar, DotTarGz}) THEN LoadTar(d[filepath], filepath)
    ELSE LoadFailed

LoadArchive(d, filepath) ==
    LET r == LoadDispatch(d, filepath) IN
    [ok |-> r.ok,
     current |-> IF r.ok THEN filepath ELSE None,
     entries |-> r.entries]

\* The enumeration of the container at path: what a listing of it yields.
Listing(d, path) == SeqMap(EntryOf, d[path].members)

(* ------------------------------ the tree ------------------------------ *)

\* ttk's _convert_stringval, applied to every value read back from the tree:
\* a name that int() accepts comes back as an int, any other as the str.
IntLike(name) == Len(name) = 1 /\ name[1] \in {"7"}
PyStr(name) == [type |-> "str", text |-> name]
PyInt(name) == [type |-> "int", text |-> name]
TreeValue(name) == IF IntLike(name) THEN PyInt(name) ELSE PyStr(name)

\* self.tree.selection(): a non-empty set of rows, in tree order.
Selections == {s \in SUBSET (1..Len(archive_entries)) : s # {}}

RECURSIVE SelectedFrom(_, _, _)
SelectedFrom(entries, rows, i) ==
    IF i > Len(entries) THEN << >>
    ELSE (IF i \in rows THEN <<TreeValue(entries[i].name)>> ELSE << >>)
         \o SelectedFrom(entries, rows, i + 1)

\* selected_names = [self.tree.item(item)['values'][0] for item in selected]
SelectedNames(rows) == SelectedFrom(archive_entries, rows, 1)

Range(s) == {s[i] : i \in 1..Len(s)}

(* ----------------------------- the record ----------------------------- *)

\* What the last handler was, what it was given, whether it ran to its end
\* without an exception, and the files it wrote below (or from) its
\* destination directory.
Did(op, arg, ok, written) == [op |-> op, arg |-> arg, ok |-> ok, written |-> written]

(* ------------------------------- Init --------------------------------- *)

\* The file systems the program starts on.
CleanDisk == [p \in DiskPaths |-> NoFile]

HostileDisk ==
    [p \in DiskPaths |->
        CASE p = ZipPath ->
               Container("zip", << Member(<<"..", "e">>, <<4>>, FALSE, "ok"),
                                   Member(<<"7">>, <<5>>, FALSE, "ok") >>)
          [] p = TarPath ->
               Container("tar", << Member(<<"..", "e">>, <<4>>, FALSE, "ok") >>)
          [] p = RarPath -> Junk
          [] OTHER -> NoFile]

DamagedDisk ==
    [p \in DiskPaths |->
        CASE p = ZipPath ->
               Container("zip", << Member(<<"x">>, <<1>>, FALSE, "ok"),
                                   Member(<<"y">>, <<6>>, FALSE, "badcrc") >>)
          [] p = TarPath -> Junk
          [] p = TarGzPath ->
               Container("targz", << Member(<<"x">>, <<1>>, FALSE, "ok"),
                                     Member(<<"y">>, <<6>>, FALSE, "badtime") >>)
          [] OTHER -> NoFile]

InitialDisks == {CleanDisk, HostileDisk, DamagedDisk}

Init ==
    /\ current_archive = None
    /\ archive_entries = << >>
    /\ disk \in InitialDisks
    /\ last = Did("init", << >>, TRUE, {})

(* ---------------------------- new / open ------------------------------ *)

\* new_archive, lines 189-203: the file it creates, if any.
CreateEmpty(d, filepath) ==
    IF EndsWith(filepath, DotZip) THEN [d EXCEPT ![filepath] = Container("zip", << >>)]
    ELSE IF EndsWith(filepath, DotTarGz) THEN [d EXCEPT ![filepath] = Container("targz", << >>)]
    ELSE d

new_archive ==
    \E filepath \in ArchivePaths :
        LET d == CreateEmpty(disk, filepath)
            r == LoadArchive(d, filepath)
        IN /\ disk' = d
           /\ current_archive' = r.current
           /\ archive_entries' = r.entries
           /\ last' = Did("new", filepath, r.ok, {})

open_archive ==
    \E filepath \in ArchivePaths :
        LET r == LoadArchive(disk, filepath)
        IN /\ current_archive' = r.current
           /\ archive_entries' = r.entries
           /\ last' = Did("open", filepath, r.ok, {})
           /\ UNCHANGED disk

(* -------------------------------- add --------------------------------- *)

FileMember(name, data) == Member(name, data, FALSE, "ok")
DirMember(name) == Member(name, << >>, TRUE, "ok")

TotalMembers(d) ==
    LET RECURSIVE Sum(_)
        Sum(ps) == IF ps = {} THEN 0
                   ELSE LET p == CHOOSE q \in ps : TRUE
                        IN Len(d[p].members) + Sum(ps \ {p})
    IN Sum(DiskPaths)

\* Lines 318-327: the loop over paths inside zipfile.ZipFile(..., 'a').  A path
\* that is neither a file nor a directory is passed over; zf.write of a file
\* that cannot be read raises, and the members written before it stay.
RECURSIVE ZipAddLoop(_, _)
ZipAddLoop(paths, acc) ==
    IF paths = << >> THEN [ok |-> TRUE, members |-> acc]
    ELSE LET path == Head(paths) IN
         IF IsFile(path) THEN
             IF Readable(path)
             THEN ZipAddLoop(Tail(paths),
                             Append(acc, FileMember(Basename(path), FileData(path))))
             ELSE [ok |-> FALSE, members |-> acc]
         ELSE IF IsDir(path) THEN
             ZipAddLoop(Tail(paths),
                        acc \o SeqMap(LAMBDA f : FileMember(RelToParent(path, f.rel), f.data),
                                      DirFiles(path)))
         ELSE ZipAddLoop(Tail(paths), acc)

\* Lines 332-334: the loop over paths inside tarfile.open(..., 'a').  tf.add
\* raises on a path that names nothing or cannot be read; a directory is added
\* as a member of its own, followed by what it holds.
RECURSIVE TarAddLoop(_, _)
TarAddLoop(paths, acc) ==
    IF paths = << >> THEN [ok |-> TRUE, members |-> acc]
    ELSE LET path == Head(paths)
             arcname == Basename(path)
         IN
         IF IsFile(path) /\ Readable(path) THEN
             TarAddLoop(Tail(paths), Append(acc, FileMember(arcname, FileData(path))))
         ELSE IF IsDir(path) THEN
             TarAddLoop(Tail(paths),
                        acc \o <<DirMember(arcname)>>
                        \o SeqMap(LAMBDA f : FileMember(arcname \o f.rel, f.data),
                                  DirFiles(path)))
         ELSE [ok |-> FALSE, members |-> acc]

\* tarfile.open(path, mode) for appending: 'a:gz' is no mode of tarfile
\* (ValueError), and 'a' appends to an uncompressed tar only.
TarAppendMode(path) == IF EndsWith(path, DotGz) THEN "a:gz" ELSE "a"
TarAppendable(file, mode) == mode = "a" /\ file.kind = "tar"

\* The with-blocks entered even when no archive is open.
AddWrite_NoGuard(d, archive, paths) ==
    IF EndsWith(archive, DotZip) THEN
        LET r == ZipAddLoop(paths, d[archive].members)
        IN [ok |-> r.ok, disk |-> [d EXCEPT ![archive] = Container("zip", r.members)]]
    ELSE IF EndsWithAny(archive, {DotTar, DotTarGz}) THEN
        IF TarAppendable(d[archive], TarAppendMode(archive)) THEN
            LET r == TarAddLoop(paths, d[archive].members)
            IN [ok |-> r.ok, disk |-> [d EXCEPT ![archive] = Container("tar", r.members)]]
        ELSE [ok |-> FALSE, disk |-> d]
    ELSE [ok |-> TRUE, disk |-> d]

\* Lines 316-334: what the with-blocks leave on the file system, and whether
\* they ran to their end.
AddWrite(d, archive, paths) ==
    IF archive = None THEN [ok |-> FALSE, disk |-> d]
    ELSE IF EndsWith(archive, DotZip) THEN
        LET r == ZipAddLoop(paths, d[archive].members)
        IN [ok |-> r.ok, disk |-> [d EXCEPT ![archive] = Container("zip", r.members)]]
    ELSE IF EndsWithAny(archive, {DotTar, DotTarGz}) THEN
        IF TarAppendable(d[archive], TarAppendMode(archive)) THEN
            LET r == TarAddLoop(paths, d[archive].members)
            IN [ok |-> r.ok, disk |-> [d EXCEPT ![archive] = Container("tar", r.members)]]
        ELSE [ok |-> FALSE, disk |-> d]
    ELSE [ok |-> TRUE, disk |-> d]

\* _add_to_archive without its reload (line 337 left out).
AddToArchive_NoReload(paths) ==
    LET w == AddWrite(disk, current_archive, paths)
    IN /\ TotalMembers(w.disk) <= MaxEntries
       /\ disk' = w.disk
       /\ UNCHANGED <<current_archive, archive_entries>>
       /\ last' = Did("add", paths, w.ok, {})

\* _add_to_archive(paths), lines 311-341.  Closed, line 316 raises on None
\* and the handler at 340-341 reports it.
AddToArchive(paths) ==
    LET w == AddWrite(disk, current_archive, paths)
        r == LoadArchive(w.disk, current_archive)
    IN /\ TotalMembers(w.disk) <= MaxEntries \/ w.disk = disk
       /\ disk' = w.disk
       /\ current_archive' = IF w.ok THEN r.current ELSE current_archive
       /\ archive_entries' = IF w.ok THEN r.entries ELSE archive_entries
       /\ last' = Did("add", paths, w.ok, {})

\* filedialog.askopenfilenames: some files of a directory, in any order, no
\* file twice.
FileChoices ==
    {ps \in UNION {[1..n -> SourceFiles] : n \in 1..Cardinality(SourceFiles)} :
        \A i, j \in 1..Len(ps) : i # j => ps[i] # ps[j]}

\* Lines 291-293 and 302-304: the warning shown instead of the dialog when no
\* archive is open.
NoArchiveWarning ==
    /\ UNCHANGED <<current_archive, archive_entries, disk>>
    /\ last' = Did("add", << >>, FALSE, {})

add_files ==
    IF current_archive = None
    THEN NoArchiveWarning
    ELSE \E filepaths \in FileChoices : AddToArchive(filepaths)

add_folder ==
    IF current_archive = None
    THEN NoArchiveWarning
    ELSE \E folder \in SourceDirs : AddToArchive(<<folder>>)

\* _add_to_archive called by itself, whatever the session holds.
add_to_archive ==
    \E paths \in FileChoices \cup {<<folder>> : folder \in SourceDirs} :
        AddToArchive(paths)

(* ------------------------------ extract ------------------------------- *)

\* A file (or directory) written by an extraction, at a path relative to the
\* destination directory; a path that leaves the destination starts with "..".
Written(path, data, is_dir) == [path |-> path, data |-> data, is_dir |-> is_dir]

\* Writing to a path replaces what was written there before.
WriteFile(written, path, data, is_dir) ==
    {f \in written : f.path # path} \cup {Written(path, data, is_dir)}

Outside(path) == path # << >> /\ path[1] = ".."

\* zipfile's _extract_member drops the empty, "." and ".." components of the
\* member's name before joining it to the destination.
ZipTargetPath(name) == SelectSeq(name, LAMBDA c : c \notin {"", ".", ".."})

\* os.path.join(destination, name) as the file system resolves it: ".." steps
\* to the parent, out of the destination when nothing is left to step out of.
RECURSIVE Resolve(_, _)
Resolve(name, acc) ==
    IF name = << >> THEN acc
    ELSE IF Head(name) \in {"", "."} THEN Resolve(Tail(name), acc)
    ELSE IF Head(name) = ".." THEN
        IF acc # << >> /\ Last(acc) # ".."
        THEN Resolve(Tail(name), SubSeq(acc, 1, Len(acc) - 1))
        ELSE Resolve(Tail(name), Append(acc, ".."))
    ELSE Resolve(Tail(name), Append(acc, Head(name)))

TarTargetPath(name) == Resolve(name, << >>)

\* tarfile's extraction filter is the interpreter's default: "fully_trusted"
\* up to Python 3.13, "data" from 3.14 on.
TarFilters == {"fully_trusted", "data"}

\* zf.extract(member, destination): the file is created before its bytes are
\* read; a checksum mismatch raises at the end of the read.
ZipExtractMember(st, m) ==
    IF m.meta = "badcrc"
    THEN [ok |-> FALSE, written |-> WriteFile(st.written, ZipTargetPath(m.name), << >>, m.is_dir)]
    ELSE [ok |-> TRUE, written |-> WriteFile(st.written, ZipTargetPath(m.name), m.data, m.is_dir)]

\* tf.extract(member, destination) under a filter: "data" raises on a member
\* that would land outside the destination, "fully_trusted" writes it there.
TarExtractMember(st, m, filter) ==
    IF filter = "data" /\ Outside(TarTargetPath(m.name))
    THEN [ok |-> FALSE, written |-> st.written]
    ELSE [ok |-> TRUE, written |-> WriteFile(st.written, TarTargetPath(m.name), m.data, m.is_dir)]

\* The library that extracts a member: zipfile, or tarfile under a filter.
ExtractMember(st, m, lib) ==
    IF lib = "zip" THEN ZipExtractMember(st, m) ELSE TarExtractMember(st, m, lib)

\* A loop over members that stops at the first exception.
RECURSIVE ExtractLoop(_, _, _)
ExtractLoop(members, st, lib) ==
    IF members = << >> \/ ~st.ok THEN st
    ELSE ExtractLoop(Tail(members), ExtractMember(st, Head(members), lib), lib)

NothingWritten == [ok |-> TRUE, written |-> {}]
ExtractFailed(st) == [ok |-> FALSE, written |-> st.written]

\* _extract(destination), lines 396-414: zf.extractall / tf.extractall.
ExtractAll(d, archive, filter) ==
    IF EndsWith(archive, DotZip) THEN
        IF ZipReadable(d[archive])
        THEN ExtractLoop(d[archive].members, NothingWritten, "zip")
        ELSE ExtractFailed(NothingWritten)
    ELSE IF EndsWithAny(archive, {DotTar, DotTarGz}) THEN
        IF TarReadable(d[archive], TarReadMode(archive))
        THEN ExtractLoop(d[archive].members, NothingWritten, filter)
        ELSE ExtractFailed(NothingWritten)
    ELSE NothingWritten

\* zf.getinfo(name) / tf.getmember(name): the last member of that name; a
\* name that is no str matches none.  << >> when there is none.
GetMember(members, name) ==
    LET hits == {i \in 1..Len(members) : PyStr(members[i].name) = name}
    IN IF hits = {} THEN << >>
       ELSE << members[CHOOSE i \in hits : \A j \in hits : j <= i] >>

\* Lines 381-382 and 387-389: one pass of the loop over selected_names.
SelectedStep(members, st, name, lib) ==
    LET found == GetMember(members, name)
    IN IF found = << >> THEN ExtractFailed(st) ELSE ExtractMember(st, found[1], lib)

RECURSIVE SelectedLoop(_, _, _, _)
SelectedLoop(members, names, st, lib) ==
    IF names = << >> \/ ~st.ok THEN st
    ELSE SelectedLoop(members, Tail(names),
                      SelectedStep(members, st, Head(names), lib), lib)

\* extract_selected, lines 376-394.
ExtractSelected(d, archive, names, filter) ==
    IF EndsWith(archive, DotZip) THEN
        IF ZipReadable(d[archive])
        THEN SelectedLoop(d[archive].members, names, NothingWritten, "zip")
        ELSE ExtractFailed(NothingWritten)
    ELSE IF EndsWithAny(archive, {DotTar, DotTarGz}) THEN
        IF TarReadable(d[archive], TarReadMode(archive))
        THEN SelectedLoop(d[archive].members, names, NothingWritten, filter)
        ELSE ExtractFailed(NothingWritten)
    ELSE NothingWritten

\* extract_archive: _extract into the directory the dialog returns.
extract_archive ==
    /\ current_archive # None
    /\ \E filter \in TarFilters :
          LET r == ExtractAll(disk, current_archive, filter)
          IN last' = Did("extract_archive", << >>, r.ok, r.written)
    /\ UNCHANGED <<current_archive, archive_entries, disk>>

\* extract_here: _extract into os.path.dirname(self.current_archive).
extract_here ==
    /\ current_archive # None
    /\ \E filter \in TarFilters :
          LET r == ExtractAll(disk, current_archive, filter)
          IN last' = Did("extract_here", << >>, r.ok, r.written)
    /\ UNCHANGED <<current_archive, archive_entries, disk>>

extract_selected ==
    /\ current_archive # None
    /\ \E rows \in Selections, filter \in TarFilters :
          LET names == SelectedNames(rows)
              r == ExtractSelected(disk, current_archive, names, filter)
          IN last' = Did("extract_selected", names, r.ok, r.written)
    /\ UNCHANGED <<current_archive, archive_entries, disk>>

(* ------------------------------- delete ------------------------------- *)

\* zf_out.writestr(item, data): the member keeps item's name and time and
\* gets the checksum of the bytes written.
Rewritten(item, data) ==
    Member(item.name, data, item.is_dir, IF item.meta = "badtime" THEN "badtime" ELSE "ok")

\* Lines 438-441: the loop over zf_in.filelist.  zf_in.read(item.filename)
\* reads by name, and raises on a checksum mismatch.
RECURSIVE RewriteLoop(_, _, _, _)
RewriteLoop(members, items, selected_names, acc) ==
    IF items = << >> THEN [ok |-> TRUE, members |-> acc]
    ELSE LET item == Head(items) IN
         IF PyStr(item.name) \notin Range(selected_names) THEN
             LET found == GetMember(members, PyStr(item.name)) IN
             IF found[1].meta = "badcrc" THEN [ok |-> FALSE, members |-> acc]
             ELSE RewriteLoop(members, Tail(items), selected_names,
                              Append(acc, Rewritten(item, found[1].data)))
         ELSE RewriteLoop(members, Tail(items), selected_names, acc)

\* Lines 433-443: the rewrite into temp_path and os.replace over the archive.
\* Only a .zip is rewritten.
DeleteWrite(d, archive, selected_names) ==
    IF EndsWith(archive, DotZip) THEN
        IF ZipReadable(d[archive]) THEN
            LET r == RewriteLoop(d[archive].members, d[archive].members,
                                 selected_names, << >>)
            IN IF r.ok
               THEN [ok |-> TRUE,
                     disk |-> [d EXCEPT ![archive] = Container("zip", r.members),
                                        ![TempPath(archive)] = NoFile]]
               ELSE [ok |-> FALSE,
                     disk |-> [d EXCEPT ![TempPath(archive)] = Container("zip", r.members)]]
        ELSE [ok |-> FALSE, disk |-> d]
    ELSE [ok |-> TRUE, disk |-> d]

\* delete_selected, lines 416-450, once the user has confirmed.
DeleteSelected(selected_names) ==
    LET w == DeleteWrite(disk, current_archive, selected_names)
        r == LoadArchive(w.disk, current_archive)
    IN /\ disk' = w.disk
       /\ current_archive' = IF w.ok THEN r.current ELSE current_archive
       /\ archive_entries' = IF w.ok THEN r.entries ELSE archive_entries
       /\ last' = Did("delete", selected_names, w.ok, {})

delete_selected ==
    /\ current_archive # None
    /\ \E rows \in Selections : DeleteSelected(SelectedNames(rows))

(* -------------------------------- test -------------------------------- *)

\* zf.testzip(): the name of the first member whose checksum fails, if any.
TestZip(members) ==
    LET bad == {i \in 1..Len(members) : members[i].meta = "badcrc"}
    IN IF bad = {} THEN "pass" ELSE "bad"

\* Lines 458-480: "pass", "bad" (a bad file found) or "exception".  fault is
\* an I/O error raised while the container is read.
TestOutcome(d, archive, fault) ==
    IF fault THEN "exception"
    ELSE IF EndsWith(archive, DotZip) THEN
        IF ZipReadable(d[archive]) THEN TestZip(d[archive].members) ELSE "exception"
    ELSE IF EndsWithAny(archive, {DotTar, DotTarGz}) THEN
        IF TarReadable(d[archive], TarReadMode(archive)) THEN "pass" ELSE "exception"
    ELSE "pass"

\* test_archive closing the session when the test does not pass, the way
\* load_archive's handler does (line 244).
TestArchive_ClosesOnFailure(fault) ==
    LET outcome == TestOutcome(disk, current_archive, fault)
    IN /\ last' = Did("test", outcome, outcome = "pass", {})
       /\ current_archive' = IF outcome = "pass" THEN current_archive ELSE None
       /\ UNCHANGED <<archive_entries, disk>>

\* test_archive: nothing but dialogs and the status bar is written.
TestArchive(fault) ==
    LET outcome == TestOutcome(disk, current_archive, fault)
    IN /\ last' = Did("test", outcome, outcome = "pass", {})
       /\ UNCHANGED <<current_archive, archive_entries, disk>>

test_archive ==
    /\ current_archive # None
    /\ \E fault \in BOOLEAN : TestArchive(fault)

(* ------------------------- the specification -------------------------- *)

Next ==
    \/ new_archive
    \/ open_archive
    \/ add_files
    \/ add_folder
    \/ add_to_archive
    \/ extract_archive
    \/ extract_here
    \/ extract_selected
    \/ delete_selected
    \/ test_archive

Spec == Init /\ [][Next]_vars

\* A session that is Open holds a path whose container the loaders read.
TypeOK ==
    /\ current_archive \in ArchivePaths \cup {None}
    /\ current_archive # None =>
          disk[current_archive].kind \in {"zip", "tar", "targz"}

(* ------------------------------ the claims ---------------------------- *)

\* C1: after an add or a delete that ran to its end, the session is Open and
\* archive_entries is, in order, the enumeration of the container on disk at
\* current_archive.
C1_CacheRefreshed ==
    (last.op \in {"add", "delete"} /\ last.ok) =>
        /\ current_archive # None
        /\ archive_entries = Listing(disk, current_archive)

\* C1 witness: an add to a zip ran to its end and the container holds
\* several members.
C1_Witness ==
    /\ last.op = "add" /\ last.ok
    /\ current_archive = ZipPath
    /\ Len(disk[ZipPath].members) >= 2

\* The formats the specification counts as supported, by extension.
SupportedExtension(path) == EndsWithAny(path, {DotZip, DotTar, DotTarGz, DotTgz})

\* The members of a container that a tree value names.
Named(members, value) == {i \in 1..Len(members) : TreeValue(members[i].name) = value}

\* C2: when opening a path fails, the session is Closed and archive_entries
\* holds nothing of the failed load.
C2_FailedOpenLeavesNothing ==
    (last.op = "open" /\ ~last.ok) =>
        /\ current_archive = None
        /\ archive_entries = << >>

\* C3: creating an archive at a path of a supported format and opening it
\* leaves the session Open on that path with an empty entry list.
C3_CreateThenOpenIsEmpty ==
    (last.op = "new" /\ SupportedExtension(last.arg)) =>
        /\ last.ok
        /\ current_archive = last.arg
        /\ archive_entries = << >>

\* C4: after a regular, readable file is added to the open archive, extracting
\* the entry of its base name writes exactly one file, at that name, holding
\* the file's bytes.
C4_RoundTrip ==
    \A path \in SourceFiles :
        (last.op = "add" /\ last.arg = <<path>> /\ current_archive # None
            /\ IsFile(path) /\ Readable(path)) =>
            \A filter \in TarFilters :
                ExtractSelected(disk, current_archive,
                                <<TreeValue(Basename(path))>>, filter)
                  = [ok |-> TRUE,
                     written |-> {Written(Basename(path), FileData(path), FALSE)}]

\* C5: after a delete that reports success, no member of the container and no
\* entry of the cache bears a deleted name.
C5_DeletedNamesAreGone ==
    (last.op = "delete" /\ last.ok) =>
        \A value \in Range(last.arg) :
            /\ Named(disk[current_archive].members, value) = {}
            /\ Named(archive_entries, value) = {}

\* The members a delete of the names must leave alone, with their bytes, in
\* their order.
Survivors(members, names) ==
    SeqMap(LAMBDA m : [name |-> m.name, data |-> m.data],
           SelectSeq(members, LAMBDA m : TreeValue(m.name) \notin Range(names)))

\* C6: a delete that reports success leaves every member whose name was not
\* selected with its own bytes, and these members in their order.
C6_SurvivorsUnchanged ==
    [][(last'.op = "delete" /\ last'.ok) =>
          Survivors(disk'[current_archive].members, last'.arg)
            = Survivors(disk[current_archive].members, last'.arg)]_vars

\* C7: when a name given to extract_selected has no member in the container,
\* nothing at all has been written.
C7_FailFast ==
    (/\ last.op = "extract_selected"
     /\ \E value \in Range(last.arg) :
            GetMember(disk[current_archive].members, value) = << >>) =>
        /\ ~last.ok
        /\ last.written = {}

ExtractOps == {"extract_archive", "extract_here", "extract_selected"}

Traversal(name) == ".." \in Range(name)

\* The names of the members the last extraction was asked for.
Requested ==
    IF last.op = "extract_selected"
    THEN {m.name : m \in {n \in Range(disk[current_archive].members) :
                             PyStr(n.name) \in Range(last.arg)}}
    ELSE {m.name : m \in Range(disk[current_archive].members)}

\* C8: no extraction writes outside its destination, and an extraction asked
\* for a member whose name holds a ".." component does not run to its end:
\* it is rejected.
C8_NoTraversal ==
    last.op \in ExtractOps =>
        /\ \A f \in last.written : ~Outside(f.path)
        /\ last.ok => \A name \in Requested : ~Traversal(name)

\* C9: an add or a delete that fails leaves the container at current_archive
\* as it was.
C9_FailureLeavesContainer ==
    [][(last'.op \in {"add", "delete"} /\ ~last'.ok /\ current_archive # None) =>
          disk'[current_archive] = disk[current_archive]]_vars

\* C10: test_archive changes neither current_archive, nor archive_entries,
\* nor any file, whatever its outcome.
C10_TestChangesNothing ==
    [][last'.op = "test" => UNCHANGED <<current_archive, archive_entries, disk>>]_vars

\* C10 witness: test_archive found a bad member.
C10_Witness == last.op = "test" /\ last.arg = "bad"

\* C11: an add made while no archive is open, through add_files, add_folder
\* or _add_to_archive itself, fails, and leaves current_archive None,
\* archive_entries as it was and every file as it was.
C11_ClosedAddChangesNothing ==
    [][(current_archive = None /\ last'.op = "add") =>
          /\ ~last'.ok
          /\ UNCHANGED <<current_archive, archive_entries, disk>>]_vars

\* C11 witness: _add_to_archive was called with paths while no archive was
\* open and the cache still held an entry of an earlier load.
C11_Witness ==
    /\ last.op = "add" /\ ~last.ok /\ last.arg # << >>
    /\ current_archive = None
    /\ archive_entries # << >>

\* C12: the names of archive_entries are pairwise distinct.
C12_NamesDistinct ==
    \A i, j \in 1..Len(archive_entries) :
        i # j => archive_entries[i].name # archive_entries[j].name

====
